---- MODULE Spec2Model ----
(***************************************************************************)
(* A model of the generation core of MusicGen: PitchGenerator,             *)
(* RhythmGenerator and PhraseGenerator (Generators.py, MusLib.py,          *)
(* PhraseGen.py) and the layer construction of Styles.py.                  *)
(*                                                                         *)
(* Numbers.  Durations, start times and lengths are Python ints (DU).      *)
(* repeat_wt and repeat_decay are floats holding small whole numbers.      *)
(* math.exp is tabulated in thousandths (Exp), so a chance is held in      *)
(* millionths, and random.random() draws a value in millionths of [0, 1).  *)
(***************************************************************************)
EXTENDS Integers, Sequences, FiniteSets, TLC

VARIABLES
    pitch_gens,    \* the PitchGenerator objects:  id -> its fields
    rhythm_gens,   \* the RhythmGenerator objects: id -> its fields
    phrase_gens,   \* the PhraseGenerator objects: id -> its fields
    duration_objs, \* the Duration objects a caller built: id -> its fields
    pc,            \* where the running gen_phrase call stands ("idle": none runs)
    frame,         \* the gen_phrase call: self, max_len, how it ended, and the
                   \* PhraseGenerators whose gen_phrase has ended so far
    result         \* the last constructor or generator call and how it ended

vars == <<pitch_gens, rhythm_gens, phrase_gens, duration_objs, pc, frame, result>>

\* ------------------------------------------------------------------ bounds

\* Histories are capped: no step is taken on a history of MaxHist entries.
MaxHist == 4
\* Target lengths and max_length arguments are drawn from 0..MaxLength.
MaxLength == 3

\* random.random(): the draws of u, in millionths.
RandomDraws == {0, 500000}
\* repetitiveness / repeat_decay arguments handed to the constructors.
Repetitivenesses == {-1, 1}
RepeatDecays == {0, 1}
\* start_time arguments handed to RhythmGenerator.
StartTimes == {-1, 0, 1}

\* ------------------------------------------------------------ MusLib values

\* Pitch(pitch_id) for an int: the object; id tells objects apart, since the
\* class defines no __eq__ and == on two Pitch objects is identity.
Pitch(pitch_id, id) == [note |-> pitch_id, id |-> id]

\* MajorScale._pitch_classes
MajorScale == {0, 2, 4, 5, 7, 9, 11}

\* PitchSet.__init__ with the range stored in the order it was given.
PitchSet_RangeAsGiven(tonic, range) ==
    [cls |-> "PitchSet", tonic |-> tonic % 12, range |-> range, classes |-> MajorScale]

\* PitchSet.__init__ with int tonic and an int pair as range (range setter).
PitchSet(tonic, range) ==
    [cls |-> "PitchSet",
     tonic |-> tonic % 12,
     range |-> IF range[2] >= range[1] THEN range ELSE <<range[2], range[1]>>,
     classes |-> MajorScale]

\* PitchSet.pitch_classes
pitch_classes(ps) == {(x + ps.tonic) % 12 : x \in ps.classes}

\* PitchSet.pitches over range(self.range[0], self.range[1]).
pitches_UpperBoundLeftOut(ps) ==
    LET lo == ps.range[1]
        hi == ps.range[2] - 1
    IN SelectSeq([k \in 1..(IF hi >= lo THEN hi - lo + 1 ELSE 0) |-> lo + k - 1],
                 LAMBDA p : p % 12 \in pitch_classes(ps))

\* PitchSet.pitches: the pitch integers, ascending (the Pitch objects are made
\* anew at every access).
pitches(ps) ==
    LET lo == ps.range[1]
        hi == ps.range[2]
    IN SelectSeq([k \in 1..(IF hi >= lo THEN hi - lo + 1 ELSE 0) |-> lo + k - 1],
                 LAMBDA p : p % 12 \in pitch_classes(ps))

\* PitchSet.__len__
len_pitch_set(ps) ==
    Cardinality({p \in ps.range[1]..ps.range[2] : p % 12 \in pitch_classes(ps)})

\* PitchSet.__getitem__ for an int: the integer of the Pitch self.pitches[item],
\* an index below 0 counting from the end, or IndexError.
__getitem__(ps, item) ==
    IF 0 <= item /\ item < Len(pitches(ps))
    THEN [raised |-> "none", note |-> pitches(ps)[item + 1]]
    ELSE IF -Len(pitches(ps)) <= item /\ item < 0
    THEN [raised |-> "none", note |-> pitches(ps)[Len(pitches(ps)) + item + 1]]
    ELSE [raised |-> "IndexError", note |-> 0]

\* Duration(duration) for an int not above max_allowed_duration.
Duration(duration) == [cls |-> "Duration", duration |-> duration]

\* StartTime(start_du): raises TypeError for a negative int.
StartTime(start_du) ==
    [raised |-> IF start_du < 0 THEN "TypeError" ELSE "none", start_du |-> start_du]

\* Rhythm(start, duration) with its start and duration properties.
Rhythm(start, duration) ==
    [cls |-> "Rhythm", start |-> start.start_du, duration |-> duration.duration]

\* ------------------------------------------------------- Duration construction

\* Python ints are unbounded.  The DU values Duration.__init__ handles reach
\* 2**32, so there they are held in two limbs: hi * 2^16 + lo, 0 <= lo < 2^16.
Limb == 2^16
Wide(n) == [hi |-> n \div Limb, lo |-> n % Limb]
WideGt(a, b) == a.hi > b.hi \/ (a.hi = b.hi /\ a.lo > b.lo)
\* num * k / den for ints 0 <= num, 0 < k, 0 < den < 2^15: the whole part and
\* whether there is no fractional part.
WideMulDiv(num, k, den) ==
    LET p_lo == (num % Limb) * k
        hi == (num \div Limb) * k + p_lo \div Limb
        lo == p_lo % Limb
        t == (hi % den) * Limb + lo
    IN [whole |-> [hi |-> hi \div den, lo |-> t \div den], integral |-> t % den = 0]

\* max_allowed_duration = 2**32-1
max_allowed_duration == [hi |-> 65535, lo |-> 65535]
\* Duration.qnote_dur
qnote_dur == 96

\* A str is a string; s[i] and s[i:] are
Char(s, i) == SubSeq(s, i, i)
From(s, i) == SubSeq(s, i, Len(s))
\* s[i:].startswith(w)
StartsWithAt(s, i, w) == i + Len(w) - 1 <= Len(s) /\ SubSeq(s, i, i + Len(w) - 1) = w

AsciiDigits == "0123456789"
AsciiUpper == "ABCDEFGHIJKLMNOPQRSTUVWXYZ"
AsciiLower == "abcdefghijklmnopqrstuvwxyz"
\* \d of re, on ASCII text
IsDigit(c) == \E d \in 1..10 : Char(AsciiDigits, d) = c
\* int(x) for a str of digits
RECURSIVE int(_)
int(x) ==
    IF Len(x) = 0 THEN 0
    ELSE 10 * int(SubSeq(x, 1, Len(x) - 1))
         + (CHOOSE d \in 0..9 : Char(AsciiDigits, d + 1) = Char(x, Len(x)))
\* str.lower(), on ASCII text
RECURSIVE lower(_)
lower(s) ==
    IF Len(s) = 0 THEN ""
    ELSE (IF \E k \in 1..26 : Char(AsciiUpper, k) = Char(s, 1)
          THEN Char(AsciiLower, CHOOSE k \in 1..26 : Char(AsciiUpper, k) = Char(s, 1))
          ELSE Char(s, 1)) \o lower(From(s, 2))
\* str.strip(), on text whose only whitespace is the space
RECURSIVE strip(_)
strip(s) ==
    IF Len(s) > 0 /\ Char(s, 1) = " " THEN strip(From(s, 2))
    ELSE IF Len(s) > 0 /\ Char(s, Len(s)) = " " THEN strip(SubSeq(s, 1, Len(s) - 1))
    ELSE s
\* str.replace(old, ''): every occurrence of old, left to right
RECURSIVE replace(_, _)
replace(s, old) ==
    IF Len(s) = 0 THEN ""
    ELSE IF StartsWithAt(s, 1, old) THEN replace(From(s, Len(old) + 1), old)
    ELSE Char(s, 1) \o replace(From(s, 2), old)
\* re.search('a|b', s), from position i: m.group() of the leftmost match, the
\* first alternative that matches there; "" for None.
RECURSIVE search(_, _, _)
search(alternatives, s, i) ==
    IF i > Len(s) THEN ""
    ELSE IF \E a \in DOMAIN alternatives : StartsWithAt(s, i, alternatives[a])
    THEN alternatives[CHOOSE a \in DOMAIN alternatives :
                         /\ StartsWithAt(s, i, alternatives[a])
                         /\ \A b \in 1..(a - 1) : ~StartsWithAt(s, i, alternatives[b])]
    ELSE search(alternatives, s, i + 1)

\* The number of leading digits of s[i:].
RECURSIVE digit_run(_, _)
digit_run(s, i) ==
    IF i <= Len(s) /\ IsDigit(Char(s, i)) THEN 1 + digit_run(s, i + 1) ELSE 0
\* re.match('^\d+/?\d*$', dur_str) and dur_str.split('/'): whether it matches,
\* and the parts before and after the slash.
fraction_match(s) ==
    LET n1 == digit_run(s, 1)
        rest == IF n1 < Len(s) /\ Char(s, n1 + 1) = "/" THEN n1 + 2 ELSE n1 + 1
    IN [matched |-> n1 >= 1 /\ rest + digit_run(s, rest) = Len(s) + 1,
        parts |-> <<SubSeq(s, 1, n1), From(s, rest)>>]

\* Duration.simple_names and Duration.fancy_names, in dict order; the values as
\* <<numerator, denominator>>.
simple_names ==
    << <<"octuple whole", 8, 1>>, <<"quadruple whole", 4, 1>>, <<"double whole", 2, 1>>,
       <<"whole", 1, 1>>, <<"half", 1, 2>>, <<"quarter", 1, 4>>, <<"eighth", 1, 8>>,
       <<"sixteenth", 1, 16>>, <<"thirty second", 1, 32>>, <<"sixty fourth", 1, 64>> >>
fancy_names ==
    << <<"maxima", 8, 1>>, <<"longa", 4, 1>>, <<"breve", 2, 1>>, <<"semibreve", 1, 1>>,
       <<"minim", 1, 2>>, <<"crotchet", 1, 4>>, <<"quaver", 1, 8>>,
       <<"semiquaver", 1, 16>>, <<"demisemiquaver", 1, 32>>,
       <<"hemidemisemiquaver", 1, 64>> >>

\* re.match(Duration._note_name_regex(note_name), s): a space of note_name is
\* '[ \-_]?', and '([ \-_]note)?$' follows the name.
IsSeparator(c) == c \in {" ", "-", "_"}
RECURSIVE _note_name_regex(_, _)
_note_name_regex(note_name, s) ==
    IF Len(note_name) = 0
    THEN \/ Len(s) = 0
         \/ Len(s) = 5 /\ IsSeparator(Char(s, 1)) /\ From(s, 2) = "note"
    ELSE IF Char(note_name, 1) = " "
    THEN \/ _note_name_regex(From(note_name, 2), s)
         \/ Len(s) > 0 /\ IsSeparator(Char(s, 1))
                       /\ _note_name_regex(From(note_name, 2), From(s, 2))
    ELSE /\ Len(s) > 0 /\ Char(s, 1) = Char(note_name, 1)
         /\ _note_name_regex(From(note_name, 2), From(s, 2))

\* One of the two loops over the names: the entry of the first name that
\* matches, or frac as it was.
first_name(names, s, frac) ==
    LET hits == {k \in DOMAIN names : _note_name_regex(names[k][1], s)}
    IN IF hits = {} THEN frac
       ELSE LET k == CHOOSE h \in hits : \A g \in hits : h <= g
            IN <<names[k][2], names[k][3]>>

\* Duration._parse_duration_string: the error raised, int(dur), whether the
\* warning of a fractional duration unit was given, and the flags it set.
\* frac is held as <<numerator, denominator>> (<<>>: None); for the strings of
\* the model the float arithmetic gives the exact quotients.  The steps, last
\* first:
_parse_duration_string(dur_str_in) ==
    LET \* "Did parsing fail?", dur = frac * 4 * Duration.qnote_dur, int(dur)
        finish(frac, flags) ==
            IF frac = <<>>
            THEN [raised |-> "RuntimeError", dur |-> Wide(0), warned |-> FALSE,
                  flags |-> flags]
            ELSE IF frac[2] = 0
            THEN [raised |-> "ZeroDivisionError", dur |-> Wide(0), warned |-> FALSE,
                  flags |-> flags]
            ELSE [raised |-> "none",
                  dur |-> WideMulDiv(frac[1], 4 * qnote_dur, frac[2]).whole,
                  warned |-> ~WideMulDiv(frac[1], 4 * qnote_dur, frac[2]).integral,
                  flags |-> flags]
        \* frac *= 2/3 and frac *= 1.5, if frac is not None
        decorate(frac, dotted, triplet) ==
            IF frac = <<>> THEN <<>>
            ELSE <<frac[1] * (IF triplet # "" THEN 2 ELSE 1)
                           * (IF dotted # "" THEN 3 ELSE 1),
                   frac[2] * (IF triplet # "" THEN 3 ELSE 1)
                           * (IF dotted # "" THEN 2 ELSE 1)>>
        \* the loops over simple_names and fancy_names
        look_up(name, dotted, triplet) ==
            finish(decorate(first_name(fancy_names, name,
                                       first_name(simple_names, name, <<>>)),
                            dotted, triplet),
                   [_is_dotted |-> dotted # "", _is_triplet |-> triplet # ""])
        \* m = re.search('triplet|tuple', dur_str) and its removal
        remove_triplet(dur_str, dotted, triplet) ==
            look_up(IF triplet = "" THEN dur_str ELSE strip(replace(dur_str, triplet)),
                    dotted, triplet)
        find_triplet(dur_str, dotted) ==
            remove_triplet(dur_str, dotted, search(<<"triplet", "tuple">>, dur_str, 1))
        \* m = re.search('dotted|dot', dur_str) and its removal
        remove_dotted(dur_str, dotted) ==
            find_triplet(IF dotted = "" THEN dur_str ELSE strip(replace(dur_str, dotted)),
                         dotted)
        \* the fraction branch: frac[0], or frac[0]/frac[1]
        fraction(parts) ==
            finish(<<int(parts[1]), IF Len(parts[2]) = 0 THEN 1 ELSE int(parts[2])>>,
                   [_is_dotted |-> FALSE, _is_triplet |-> FALSE])
        branch(dur_str, fm) ==
            IF fm.matched THEN fraction(fm.parts)
            ELSE remove_dotted(dur_str, search(<<"dotted", "dot">>, dur_str, 1))
        lowered(dur_str) == branch(dur_str, fraction_match(dur_str))
    IN lowered(lower(dur_str_in))

\* An argument of Duration(...): an int (held wide), a str, or a float.
IntArg(wide) == [cls |-> "int", val |-> wide]
StrArg(str) == [cls |-> "str", val |-> str]
FloatArg == [cls |-> "float"]

\* Duration.__init__ for any argument: the error raised, or the new object (id
\* tells objects apart: the class defines no __eq__).
Duration__init__(duration, id) ==
    LET \* the check against max_allowed_duration and self._duration = duration
        store(parsed) ==
            IF parsed.raised # "none"
            THEN [raised |-> parsed.raised, warned |-> FALSE]
            ELSE IF WideGt(parsed.dur, max_allowed_duration)
            THEN [raised |-> "ValueError", warned |-> parsed.warned]
            ELSE [raised |-> "none", warned |-> parsed.warned,
                  obj |-> [cls |-> "Duration", id |-> id, duration |-> parsed.dur,
                           _is_dotted |-> parsed.flags._is_dotted,
                           _is_triplet |-> parsed.flags._is_triplet]]
    IN IF duration.cls \notin {"int", "str"}
       THEN [raised |-> "TypeError", warned |-> FALSE]
       ELSE store(IF duration.cls = "str" THEN _parse_duration_string(duration.val)
                  ELSE [raised |-> "none", dur |-> duration.val, warned |-> FALSE,
                        flags |-> [_is_dotted |-> FALSE, _is_triplet |-> FALSE]])

\* Duration == Duration: object identity.
DurationEq(a, b) == a.id = b.id

\* ------------------------------------------------------------------ syncopation

\* A float is held as the pair float.as_integer_ratio() gives: <<numerator,
\* denominator>>, in lowest terms, the denominator a power of two.  The floats
\* of the model are the dyadic rationals whose terms fit.
RECURSIVE as_integer_ratio(_, _)
as_integer_ratio(numerator, denominator) ==
    IF denominator > 1 /\ numerator % 2 = 0
    THEN as_integer_ratio(numerator \div 2, denominator \div 2)
    ELSE <<numerator, denominator>>
\* x + y on two floats (exact for the floats of the model)
float_add(x, y) == as_integer_ratio(x[1] * y[2] + y[1] * x[2], x[2] * y[2])

\* precision = 1e-6, in billionths
precision == 1000
\* n with its factors 2 taken out: math.log2(n / 2^k) % 1 is that of the odd part
RECURSIVE odd_part(_)
odd_part(n) == IF n % 2 = 0 THEN odd_part(n \div 2) ELSE n
\* math.log2(n) % 1 in billionths, tabulated for the odd parts of the model's
\* lengths.
log2_mod_1(n) ==
    CASE n = 1 -> 0
      [] n = 3 -> 584962501
      [] n = 2097151 -> 999999312
      [] n = 2097153 -> 688
\* is_simple(length): math.log2 raises ValueError for length <= 0.
is_simple(length) ==
    IF length[1] <= 0
    THEN [raised |-> "ValueError", value |-> FALSE]
    ELSE [raised |-> "none", value |-> log2_mod_1(odd_part(length[1])) < precision]

\* math.log2(score) in thousandths, tabulated for the positive scores (in
\* thousandths) the model's lengths and beats give.
log2_score(score) ==
    CASE score = 750 -> -415
      [] score = 1500 -> 585
      [] score = 2250 -> 1170
      [] score = 3000 -> 1585
      [] score = 4500 -> 2170
      [] score = 6000 -> 2585
      [] score = 9000 -> 3170

Max(a, b) == IF a >= b THEN a ELSE b

\* calculate_syncopation where the crossing of a bar line, told from meter,
\* doubles the score.
calculate_syncopation_BarWeighted(length, beat, meter, linear) ==
    LET raw(start_score, end_score) ==
            ((start_score * 2 + end_score) * length[2]) \div length[1]
        weighted(score) == IF meter = "None" THEN score ELSE 2 * score
        scored(score) ==
            [raised |-> "none",
             score |-> IF linear /\ score > 0 THEN log2_score(score) ELSE weighted(score)]
    IN IF is_simple(length).raised # "none"
       THEN [raised |-> is_simple(length).raised, score |-> 0]
       ELSE IF ~is_simple(length).value
       THEN [raised |-> "NotImplementedError", score |-> 0]
       ELSE scored(raw(Max(0, (1000 * beat[2]) \div length[2] - 1000),
                       Max(0, (1000 * float_add(beat, length)[2]) \div length[2] - 1000)))

\* calculate_syncopation without the division of the score by length.
calculate_syncopation_LengthNotDivided(length, beat, meter, linear) ==
    LET raw(start_score, end_score) == start_score * 2 + end_score
        scored(score) ==
            [raised |-> "none",
             score |-> IF linear /\ score > 0 THEN log2_score(score) ELSE score]
    IN IF is_simple(length).raised # "none"
       THEN [raised |-> is_simple(length).raised, score |-> 0]
       ELSE IF ~is_simple(length).value
       THEN [raised |-> "NotImplementedError", score |-> 0]
       ELSE scored(raw(Max(0, (1000 * beat[2]) \div length[2] - 1000),
                       Max(0, (1000 * float_add(beat, length)[2]) \div length[2] - 1000)))

\* RhythmGenerator.calculate_syncopation(length, beat, meter, linear): the error
\* raised, or the score in thousandths.  start, end and duration are the integer
\* ratios of beat, beat + length and length; start_wt is 2.0.
calculate_syncopation(length, beat, meter, linear) ==
    LET raw(start_score, end_score) ==
            ((start_score * 2 + end_score) * length[2]) \div length[1]
        scored(score) ==
            [raised |-> "none",
             score |-> IF linear /\ score > 0 THEN log2_score(score) ELSE score]
    IN IF is_simple(length).raised # "none"
       THEN [raised |-> is_simple(length).raised, score |-> 0]
       ELSE IF ~is_simple(length).value
       THEN [raised |-> "NotImplementedError", score |-> 0]
       ELSE scored(raw(Max(0, (1000 * beat[2]) \div length[2] - 1000),
                       Max(0, (1000 * float_add(beat, length)[2]) \div length[2] - 1000)))

\* ---------------------------------------------------------- inputs (bounded)

\* The pitch sets handed to PitchGenerator: two pitches, none in range, and
\* three pitches with the bounds given descending.
PitchSets == {PitchSet(0, <<0, 2>>), PitchSet(0, <<1, 1>>), PitchSet(0, <<4, 0>>)}
\* A value that is no PitchSet.
NotAPitchSet == [cls |-> "list"]

\* The duration vocabularies handed to RhythmGenerator.
Vocabularies ==
    { <<>>,
      <<Duration(2)>>,
      <<Duration(1), Duration(2)>>,
      <<Duration(0), Duration(1)>>,
      <<Duration(-1), Duration(1)>> }

\* The arguments handed to Duration(...): ints around both ends of the range,
\* a float, and strings: fractions, note names in their spellings, decorated
\* names, and strings of neither form.
DurationArgs ==
    { IntArg(Wide(-3)), IntArg(Wide(0)), IntArg(Wide(1)), IntArg(Wide(96)),
      IntArg(max_allowed_duration), IntArg([hi |-> 65536, lo |-> 0]),
      FloatArg }
    \cup { StrArg(str) : str \in
            { "1/4", "quarter", "quarter note", "eighth triplet", "dotted half",
              "1/12", "3/8", "2", "1/", "0", "1/0", "1/5", "1/768",
              "11184810", "11184811",
              "crotchet", "Quarter", "quarter-note", "thirtysecond",
              "thirty_second note", "dot quarter", "quarter tuple",
              "dotted quarter triplet",
              "maxima", "octuple whole", "quadruple whole", "double whole", "whole",
              "", "abc", "1/4/2", "dotted", "quarternote", "dotted-quarter" } }

\* The floats handed to calculate_syncopation as length: powers of two, 3/4,
\* 3/8, 3/2 and 3, 1 + 2^-21 and 1 - 2^-21, 0.0 and -1.0; as beat: 0, 1/4, 1/2
\* and 1; and the meter arguments.
Lengths ==
    { <<1, 4>>, <<1, 2>>, <<1, 1>>, <<2, 1>>, <<4, 1>>,
      <<3, 8>>, <<3, 4>>, <<3, 2>>, <<3, 1>>,
      <<2097153, 2097152>>, <<2097151, 2097152>>, <<0, 1>>, <<-1, 1>> }
Beats == { <<0, 1>>, <<1, 4>>, <<1, 2>>, <<1, 1>> }
Meters == {"None", "4/4"}

\* The tonic and range arguments handed to MajorScale(tonic, range).
Tonics == {-13, -1, 0, 5, 11, 12, 25}
RangeBounds == -2..10

\* --------------------------------------------------------- repeat probability

\* math.exp(k / 2) in thousandths, k in -10..10.
ExpTable ==
    <<7, 11, 18, 30, 50, 82, 135, 223, 368, 607, 1000,
      1649, 2718, 4482, 7389, 12182, 20086, 33115, 54598, 90017, 148413>>
Exp(k) == ExpTable[k + 11]

\* (1 - math.exp(self.repeat_wt)) * math.exp(-n_rep / self.repeat_decay), in
\* millionths; repeat_decay is not 0 here (the caller raises before).
chance(repeat_wt, n_rep, repeat_decay) ==
    (1000 - Exp(2 * repeat_wt))
        * Exp(IF repeat_decay > 0 THEN -((2 * n_rep) \div repeat_decay)
                                  ELSE (2 * n_rep) \div (-repeat_decay))

\* random.randint(a, b): the values it may return (none: it raises ValueError).
randint(a, b) == a..b
\* The index draws of one step; a step whose randint raises still is one step.
IndexDraws(n) == IF n = 0 THEN {0} ELSE randint(0, n - 1)

\* -------------------------------------------------------------- PitchGenerator

\* PitchGenerator.__init__: the new object, or the error raised.
PitchGenerator(pitches_arg, repetitiveness, repeat_decay, leapiness) ==
    IF pitches_arg.cls # "PitchSet"
    THEN [raised |-> "TypeError"]
    ELSE [raised |-> "none",
          obj |-> [pitch_set |-> pitches_arg,
                   repeat_wt |-> repetitiveness,
                   repeat_decay |-> repeat_decay,
                   leap_wt |-> leapiness,
                   _notes_so_far |-> <<>>]]

\* Pitch == Pitch: object identity.
PitchEq(a, b) == a.id = b.id

\* PitchGenerator.count_repeated_pitches: the scan of pitches[-2::-1] from
\* index i down, stopping at the first entry that is not pitches[-1].
RECURSIVE scan_pitches(_, _)
scan_pitches(notes, i) ==
    IF i < 1 THEN 0
    ELSE IF PitchEq(notes[i], notes[Len(notes)])
         THEN 1 + scan_pitches(notes, i - 1)
         ELSE 0
count_repeated_pitches(notes) == scan_pitches(notes, Len(notes) - 1)

\* add_pitch putting the note in front of the history.
add_pitch_InFront(notes, note) == <<note>> \o notes

\* PitchGenerator.add_pitch
add_pitch(notes, note) == Append(notes, note)

\* PitchGenerator.gen_next_pitch with the draws u = random.random() and
\* i = random.randint(0, len(pitch_set) - 1): the error raised, the branch
\* that ended the call and the history after it.
gen_next_pitch(self, u, i) ==
    LET notes == self._notes_so_far
        fresh ==
            IF len_pitch_set(self.pitch_set) = 0
            THEN [raised |-> "ValueError", branch |-> "fresh", notes |-> notes]
            ELSE [raised |-> "none", branch |-> "fresh",
                  notes |-> add_pitch(notes,
                                Pitch(__getitem__(self.pitch_set, i).note,
                                      Len(notes) + 1))]
    IN IF Len(notes) > 0
       THEN IF self.repeat_decay = 0
            THEN [raised |-> "ZeroDivisionError", branch |-> "none", notes |-> notes]
            ELSE IF u < chance(self.repeat_wt, count_repeated_pitches(notes),
                               self.repeat_decay)
                 THEN [raised |-> "none", branch |-> "repeat",
                       notes |-> add_pitch(notes, notes[Len(notes)])]
                 ELSE fresh
       ELSE fresh

\* ------------------------------------------------------------- RhythmGenerator

\* RhythmGenerator.__init__ that checks start_time and leaves the start at 0.
RhythmGenerator_StartAtZero(durations, repetitiveness, repeat_decay, start_time) ==
    IF StartTime(start_time).raised # "none"
    THEN [raised |-> "TypeError"]
    ELSE [raised |-> "none",
          obj |-> [duration_set |-> durations,
                   repeat_wt |-> repetitiveness,
                   repeat_decay |-> repeat_decay,
                   _start_time |-> StartTime(0).start_du,
                   _rhythms_so_far |-> <<>>]]

\* RhythmGenerator.__init__ with a list of Durations and an int start_time.
RhythmGenerator(durations, repetitiveness, repeat_decay, start_time) ==
    IF StartTime(start_time).raised # "none"
    THEN [raised |-> "TypeError"]
    ELSE [raised |-> "none",
          obj |-> [duration_set |-> durations,
                   repeat_wt |-> repetitiveness,
                   repeat_decay |-> repeat_decay,
                   _start_time |-> StartTime(start_time).start_du,
                   _rhythms_so_far |-> <<>>]]

\* get_next_start_time with the previous duration left out of the sum.
get_next_start_time_WithoutDuration(self) ==
    LET rs == self._rhythms_so_far
    IN IF Len(rs) = 0
       THEN StartTime(self._start_time)
       ELSE StartTime(rs[Len(rs)].start)

\* RhythmGenerator.get_next_start_time: a StartTime, or the TypeError of
\* StartTime(new_stime) for a negative sum.
get_next_start_time(self) ==
    LET rs == self._rhythms_so_far
    IN IF Len(rs) = 0
       THEN StartTime(self._start_time)
       ELSE StartTime(rs[Len(rs)].start + rs[Len(rs)].duration)

\* RhythmGenerator.add_duration: a Rhythm argument reads the class attribute
\* Rhythm._duration_instance, which does not exist.
add_duration(self, dur) ==
    IF dur.cls \notin {"Duration", "Rhythm"}
    THEN [raised |-> "TypeError", rhythms |-> self._rhythms_so_far]
    ELSE IF dur.cls = "Rhythm"
    THEN [raised |-> "AttributeError", rhythms |-> self._rhythms_so_far]
    ELSE IF get_next_start_time(self).raised # "none"
    THEN [raised |-> "TypeError", rhythms |-> self._rhythms_so_far]
    ELSE [raised |-> "none",
          rhythms |-> Append(self._rhythms_so_far,
                             Rhythm(get_next_start_time(self), dur))]

\* RhythmGenerator.count_repeated_rhythms
RECURSIVE scan_rhythms(_, _)
scan_rhythms(rs, i) ==
    IF i < 1 THEN 0
    ELSE IF rs[i].duration = rs[Len(rs)].duration
         THEN 1 + scan_rhythms(rs, i - 1)
         ELSE 0
count_repeated_rhythms(rs) == scan_rhythms(rs, Len(rs) - 1)

\* this_dur_set without the filter on max_length.
this_dur_set_Unfiltered(duration_set, max_length) == duration_set

\* this_dur_set of gen_next_rhythm
this_dur_set(duration_set, max_length) ==
    SelectSeq(duration_set, LAMBDA dur : dur.duration <= max_length)

\* gen_next_rhythm that appends a Rhythm of no length before the fresh draw
\* fails.
gen_next_rhythm_AppendsBeforeFailing(self, max_length, u, i) ==
    LET rs == self._rhythms_so_far
        durs == this_dur_set(self.duration_set, max_length)
        fresh ==
            IF Len(durs) = 0
            THEN [raised |-> "ValueError", branch |-> "fresh",
                  rhythms |-> Append(rs, Rhythm(get_next_start_time(self), Duration(0)))]
            ELSE [raised |-> add_duration(self, durs[i + 1]).raised,
                  branch |-> "fresh",
                  rhythms |-> add_duration(self, durs[i + 1]).rhythms]
    IN IF Len(rs) > 0 /\ rs[Len(rs)].duration <= max_length
       THEN IF self.repeat_decay = 0
            THEN [raised |-> "ZeroDivisionError", branch |-> "none", rhythms |-> rs]
            ELSE IF u < chance(self.repeat_wt, count_repeated_rhythms(rs),
                               self.repeat_decay)
                 THEN [raised |-> add_duration(self, rs[Len(rs)]).raised,
                       branch |-> "repeat",
                       rhythms |-> add_duration(self, rs[Len(rs)]).rhythms]
                 ELSE fresh
       ELSE fresh

\* RhythmGenerator.gen_next_rhythm(max_length) with the draws u and i.
gen_next_rhythm(self, max_length, u, i) ==
    LET rs == self._rhythms_so_far
        durs == this_dur_set(self.duration_set, max_length)
        fresh ==
            IF Len(durs) = 0
            THEN [raised |-> "ValueError", branch |-> "fresh", rhythms |-> rs]
            ELSE [raised |-> add_duration(self, durs[i + 1]).raised,
                  branch |-> "fresh",
                  rhythms |-> add_duration(self, durs[i + 1]).rhythms]
    IN IF Len(rs) > 0 /\ rs[Len(rs)].duration <= max_length
       THEN IF self.repeat_decay = 0
            THEN [raised |-> "ZeroDivisionError", branch |-> "none", rhythms |-> rs]
            ELSE IF u < chance(self.repeat_wt, count_repeated_rhythms(rs),
                               self.repeat_decay)
                 THEN [raised |-> add_duration(self, rs[Len(rs)]).raised,
                       branch |-> "repeat",
                       rhythms |-> add_duration(self, rs[Len(rs)]).rhythms]
                 ELSE fresh
       ELSE fresh

\* -------------------------------------------------------------- PhraseGenerator

\* A Python int where a value of another class may stand as well.
PyInt(val) == [cls |-> "int", val |-> val]

\* PhraseGenerator.__init__ with an int or a Duration as length and two
\* generator objects; length is stored as it was given.
PhraseGenerator(length, pitch_gen, rhythm_gen) ==
    [_length |-> length, _pitch_gen |-> pitch_gen, _rhythm_gen |-> rhythm_gen]

\* PhraseGenerator.phrase_pitches, PhraseGenerator.phrase_rhythms
phrase_pitches(ph) == pitch_gens[phrase_gens[ph]._pitch_gen]._notes_so_far
phrase_rhythms(ph) == rhythm_gens[phrase_gens[ph]._rhythm_gen]._rhythms_so_far

\* ------------------------------------------------------------------ the state

NoObjects == [id \in {} |-> id]
Put(heap, id, obj) == [x \in DOMAIN heap \cup {id} |-> IF x = id THEN obj ELSE heap[x]]

NoFrame == [self |-> "none", max_len |-> 0, fresh |-> FALSE,
            status |-> "none", raised |-> "none", ended |-> {}]
Result(op, self, raised, branch, max_length) ==
    [op |-> op, self |-> self, raised |-> raised, branch |-> branch,
     max_length |-> max_length]

\* Nothing is constructed yet.
Init ==
    /\ pitch_gens = NoObjects
    /\ rhythm_gens = NoObjects
    /\ phrase_gens = NoObjects
    /\ duration_objs = NoObjects
    /\ pc = "idle"
    /\ frame = NoFrame
    /\ result = Result("none", "none", "none", "none", 0)

\* ---------------------------------------------------------------- constructors

NewPitchGenerator(id) ==
    /\ pc = "idle"
    /\ id \notin DOMAIN pitch_gens
    /\ \E ps \in PitchSets \cup {NotAPitchSet}, r \in Repetitivenesses,
          rd \in RepeatDecays :
          LET new == PitchGenerator(ps, r, rd, 0)
          IN /\ pitch_gens' = IF new.raised = "none"
                              THEN Put(pitch_gens, id, new.obj) ELSE pitch_gens
             /\ result' = Result("PitchGenerator", id, new.raised, "none", 0)
    /\ UNCHANGED <<duration_objs, rhythm_gens, phrase_gens, pc, frame>>

NewRhythmGenerator(id) ==
    /\ pc = "idle"
    /\ id \notin DOMAIN rhythm_gens
    /\ \E ds \in Vocabularies, r \in Repetitivenesses, rd \in RepeatDecays,
          st \in StartTimes :
          LET new == RhythmGenerator(ds, r, rd, st)
          IN /\ rhythm_gens' = IF new.raised = "none"
                               THEN Put(rhythm_gens, id, new.obj) ELSE rhythm_gens
             /\ result' = Result("RhythmGenerator", id, new.raised, "none", 0)
    /\ UNCHANGED <<duration_objs, pitch_gens, phrase_gens, pc, frame>>

\* The length arguments handed to PhraseGenerator: DU counts as int and as
\* Duration.
PhraseLengths ==
    {PyInt(d) : d \in 1..MaxLength} \cup {Duration(d) : d \in 1..MaxLength}

NewPhraseGenerator(id) ==
    /\ pc = "idle"
    /\ id \notin DOMAIN phrase_gens
    /\ \E length \in PhraseLengths, pg \in DOMAIN pitch_gens, rg \in DOMAIN rhythm_gens :
          phrase_gens' = Put(phrase_gens, id, PhraseGenerator(length, pg, rg))
    /\ result' = Result("PhraseGenerator", id, "none", "none", 0)
    /\ UNCHANGED <<duration_objs, pitch_gens, rhythm_gens, pc, frame>>

\* ------------------------------------------------------------- generator calls

\* One call pitch_gens[id].gen_next_pitch().
CallGenNextPitch(id) ==
    /\ Len(pitch_gens[id]._notes_so_far) < MaxHist
    /\ \E u \in RandomDraws,
          i \in IndexDraws(len_pitch_set(pitch_gens[id].pitch_set)) :
          LET out == gen_next_pitch(pitch_gens[id], u, i)
          IN /\ pitch_gens' = [pitch_gens EXCEPT ![id]._notes_so_far = out.notes]
             /\ result' = Result("gen_next_pitch", id, out.raised, out.branch, 0)

\* One call rhythm_gens[id].gen_next_rhythm(max_length).
CallGenNextRhythm(id, max_length) ==
    /\ Len(rhythm_gens[id]._rhythms_so_far) < MaxHist
    /\ \E u \in RandomDraws,
          i \in IndexDraws(Len(this_dur_set(rhythm_gens[id].duration_set, max_length))) :
          LET out == gen_next_rhythm(rhythm_gens[id], max_length, u, i)
          IN /\ rhythm_gens' = [rhythm_gens EXCEPT ![id]._rhythms_so_far = out.rhythms]
             /\ result' = Result("gen_next_rhythm", id, out.raised, out.branch,
                                 max_length)

\* A caller's gen_next_pitch() on a generator, outside gen_phrase.
GenNextPitch(id) ==
    /\ pc = "idle"
    /\ id \in DOMAIN pitch_gens
    /\ CallGenNextPitch(id)
    /\ UNCHANGED <<duration_objs, rhythm_gens, phrase_gens, pc, frame>>

\* A caller's gen_next_rhythm(max_length) on a generator, outside gen_phrase.
GenNextRhythm(id) ==
    /\ pc = "idle"
    /\ id \in DOMAIN rhythm_gens
    /\ \E max_length \in 0..MaxLength : CallGenNextRhythm(id, max_length)
    /\ UNCHANGED <<duration_objs, pitch_gens, phrase_gens, pc, frame>>

\* The Durations a caller hands to add_duration.
DirectDurations == {Duration(1), Duration(2)}

\* A caller's add_duration(dur) with a Duration, or with the last Rhythm.
AddDuration(id) ==
    /\ pc = "idle"
    /\ id \in DOMAIN rhythm_gens
    /\ Len(rhythm_gens[id]._rhythms_so_far) < MaxHist
    /\ \E dur \in DirectDurations \cup
                  {rhythm_gens[id]._rhythms_so_far[k] :
                      k \in {Len(rhythm_gens[id]._rhythms_so_far)} \ {0}} :
          LET out == add_duration(rhythm_gens[id], dur)
          IN /\ rhythm_gens' = [rhythm_gens EXCEPT ![id]._rhythms_so_far = out.rhythms]
             /\ result' = Result("add_duration", id, out.raised, "none", 0)
    /\ UNCHANGED <<duration_objs, pitch_gens, phrase_gens, pc, frame>>

\* ------------------------------------------------------------ Duration objects

\* Duration(duration) for every argument of the model, computed once; the
\* caller's name for the object is filled in by NewDuration.
DurationCalls == [duration \in DurationArgs |-> Duration__init__(duration, "")]

\* A caller's Duration(duration), bound to the name id.
NewDuration(id) ==
    /\ pc = "idle"
    /\ id \notin DOMAIN duration_objs
    /\ \E duration \in DurationArgs :
          LET new == DurationCalls[duration]
          IN /\ duration_objs' = IF new.raised = "none"
                                 THEN Put(duration_objs, id, [new.obj EXCEPT !.id = id])
                                 ELSE duration_objs
             /\ result' = [op |-> "Duration", self |-> id, arg |-> duration,
                           raised |-> new.raised, warned |-> new.warned]
    /\ UNCHANGED <<pitch_gens, rhythm_gens, phrase_gens, pc, frame>>

\* A caller's a == b on two names bound to Durations.
CompareDurations(a, b) ==
    /\ pc = "idle"
    /\ a \in DOMAIN duration_objs /\ b \in DOMAIN duration_objs
    /\ result' = [op |-> "Duration.__eq__", self |-> a, other |-> b,
                  value |-> DurationEq(duration_objs[a], duration_objs[b])]
    /\ UNCHANGED <<pitch_gens, rhythm_gens, phrase_gens, duration_objs, pc, frame>>

\* ------------------------------------------------------- calculate_syncopation

\* A caller's RhythmGenerator.calculate_syncopation(length, beat, meter, linear).
CalculateSyncopation ==
    /\ pc = "idle"
    /\ \E length \in Lengths, beat \in Beats, meter \in Meters, linear \in BOOLEAN :
          LET out == calculate_syncopation(length, beat, meter, linear)
          IN result' = [op |-> "calculate_syncopation", length |-> length,
                        beat |-> beat, meter |-> meter, linear |-> linear,
                        raised |-> out.raised, score |-> out.score]
    /\ UNCHANGED <<pitch_gens, rhythm_gens, phrase_gens, duration_objs, pc, frame>>

\* -------------------------------------------------------------------- PitchSet

\* A caller's MajorScale(tonic, (a, b)).
NewPitchSet ==
    /\ pc = "idle"
    /\ \E tonic \in Tonics, a \in RangeBounds, b \in RangeBounds :
          result' = [op |-> "PitchSet", tonic |-> tonic, range |-> <<a, b>>,
                     obj |-> PitchSet(tonic, <<a, b>>)]
    /\ UNCHANGED <<pitch_gens, rhythm_gens, phrase_gens, duration_objs, pc, frame>>

\* ------------------------------------------------------------------ gen_phrase

\* A caller enters phrase_gens[ph].gen_phrase().
GenPhrase(ph) ==
    /\ pc = "idle"
    /\ ph \in DOMAIN phrase_gens
    /\ pc' = "while"
    /\ frame' = [self |-> ph, max_len |-> 0,
                 fresh |-> phrase_pitches(ph) = <<>> /\ phrase_rhythms(ph) = <<>>,
                 status |-> "running", raised |-> "none", ended |-> frame.ended]
    /\ UNCHANGED <<duration_objs, pitch_gens, rhythm_gens, phrase_gens, result>>

\* The loop test with <= in place of <.
While_TestsAtMost ==
    /\ pc = "while"
    /\ LET self == phrase_gens[frame.self]
           next == get_next_start_time(rhythm_gens[self._rhythm_gen])
       IN IF next.raised # "none"
          THEN /\ pc' = "idle"
               /\ frame' = [frame EXCEPT !.status = "raised", !.raised = next.raised,
                                       !.ended = @ \cup {frame.self}]
          ELSE IF self._length.cls # "int"
          THEN /\ pc' = "idle"
               /\ frame' = [frame EXCEPT !.status = "raised", !.raised = "TypeError",
                                       !.ended = @ \cup {frame.self}]
          ELSE IF next.start_du <= self._length.val
          THEN /\ pc' = "gen_next_pitch"
               /\ frame' = [frame EXCEPT !.max_len = self._length.val - next.start_du]
          ELSE /\ pc' = "idle"
               /\ frame' = [frame EXCEPT !.status = "returned",
                                       !.ended = @ \cup {frame.self}]
    /\ UNCHANGED <<duration_objs, pitch_gens, rhythm_gens, phrase_gens, result>>

\* The loop test with max_len set to the whole length.
While_BudgetIsLength ==
    /\ pc = "while"
    /\ LET self == phrase_gens[frame.self]
           next == get_next_start_time(rhythm_gens[self._rhythm_gen])
       IN IF next.raised # "none"
          THEN /\ pc' = "idle"
               /\ frame' = [frame EXCEPT !.status = "raised", !.raised = next.raised,
                                       !.ended = @ \cup {frame.self}]
          ELSE IF self._length.cls # "int"
          THEN /\ pc' = "idle"
               /\ frame' = [frame EXCEPT !.status = "raised", !.raised = "TypeError",
                                       !.ended = @ \cup {frame.self}]
          ELSE IF next.start_du < self._length.val
          THEN /\ pc' = "gen_next_pitch"
               /\ frame' = [frame EXCEPT !.max_len = self._length.val]
          ELSE /\ pc' = "idle"
               /\ frame' = [frame EXCEPT !.status = "returned",
                                       !.ended = @ \cup {frame.self}]
    /\ UNCHANGED <<duration_objs, pitch_gens, rhythm_gens, phrase_gens, result>>

\* The loop test and the computation of max_len.  start_du is an int and
\* Duration defines no ordering, so start_du < self._length raises TypeError
\* when the length is a Duration.
While ==
    /\ pc = "while"
    /\ LET self == phrase_gens[frame.self]
           next == get_next_start_time(rhythm_gens[self._rhythm_gen])
       IN IF next.raised # "none"
          THEN /\ pc' = "idle"
               /\ frame' = [frame EXCEPT !.status = "raised", !.raised = next.raised,
                                       !.ended = @ \cup {frame.self}]
          ELSE IF self._length.cls # "int"
          THEN /\ pc' = "idle"
               /\ frame' = [frame EXCEPT !.status = "raised", !.raised = "TypeError",
                                       !.ended = @ \cup {frame.self}]
          ELSE IF next.start_du < self._length.val
          THEN /\ pc' = "gen_next_pitch"
               /\ frame' = [frame EXCEPT !.max_len = self._length.val - next.start_du]
          ELSE /\ pc' = "idle"
               /\ frame' = [frame EXCEPT !.status = "returned",
                                       !.ended = @ \cup {frame.self}]
    /\ UNCHANGED <<duration_objs, pitch_gens, rhythm_gens, phrase_gens, result>>

\* self._pitch_gen.gen_next_pitch()
PitchStep ==
    /\ pc = "gen_next_pitch"
    /\ CallGenNextPitch(phrase_gens[frame.self]._pitch_gen)
    /\ pc' = IF result'.raised = "none" THEN "gen_next_rhythm" ELSE "idle"
    /\ frame' = IF result'.raised = "none" THEN frame
                ELSE [frame EXCEPT !.status = "raised", !.raised = result'.raised,
                                   !.ended = @ \cup {frame.self}]
    /\ UNCHANGED <<duration_objs, rhythm_gens, phrase_gens>>

\* self._rhythm_gen.gen_next_rhythm(max_length=max_len)
RhythmStep ==
    /\ pc = "gen_next_rhythm"
    /\ CallGenNextRhythm(phrase_gens[frame.self]._rhythm_gen, frame.max_len)
    /\ pc' = IF result'.raised = "none" THEN "while" ELSE "idle"
    /\ frame' = IF result'.raised = "none" THEN frame
                ELSE [frame EXCEPT !.status = "raised", !.raised = result'.raised,
                                   !.ended = @ \cup {frame.self}]
    /\ UNCHANGED <<duration_objs, pitch_gens, phrase_gens>>

\* -------------------------------------------------------------- specifications

\* A program that builds one generator of each kind and one PhraseGenerator over
\* them, and calls gen_phrase.
Next ==
    \/ NewPitchGenerator("common_pitch_gen")
    \/ NewRhythmGenerator("common_dur_gen")
    \/ NewPhraseGenerator("layer")
    \/ GenPhrase("layer")
    \/ While
    \/ PitchStep
    \/ RhythmStep
Spec == Init /\ [][Next]_vars

\* A program that builds a RhythmGenerator and steps it directly.
NextRhythm ==
    \/ NewRhythmGenerator("common_dur_gen")
    \/ GenNextRhythm("common_dur_gen")
    \/ AddDuration("common_dur_gen")
SpecRhythm == Init /\ [][NextRhythm]_vars

\* A program that builds a PitchGenerator and steps it directly.
NextPitch ==
    \/ NewPitchGenerator("common_pitch_gen")
    \/ GenNextPitch("common_pitch_gen")
SpecPitch == Init /\ [][NextPitch]_vars

\* A program that builds two Durations and compares them.
NextDuration ==
    \/ NewDuration("a")
    \/ NewDuration("b")
    \/ CompareDurations("a", "a")
    \/ CompareDurations("a", "b")
SpecDuration == Init /\ [][NextDuration]_vars

\* A program that calls the syncopation scorer.
NextSyncopation == CalculateSyncopation
SpecSyncopation == Init /\ [][NextSyncopation]_vars

\* A program that builds pitch sets.
NextPitchSet == NewPitchSet
SpecPitchSet == Init /\ [][NextPitchSet]_vars

\* The layers of BaseStyle._gen_layers: generators built with (1.0, 1.0[, 1.0])
\* and PhraseGenerators of one phrase_len over them.  layer1 uses the common
\* generators; layer2 reuses both, or has a pitch or a rhythm generator of its own.
LayerPitchSets == {PitchSet(0, <<0, 2>>)}
LayerVocabularies == { <<Duration(1)>>, <<Duration(1), Duration(2)>> }
LayerWirings == { <<"common_pitch_gen", "common_dur_gen">>,
                  <<"other_pitch_gen", "common_dur_gen">>,
                  <<"common_pitch_gen", "other_dur_gen">> }
InitLayers ==
    /\ \E ps \in LayerPitchSets :
          pitch_gens = [id \in {"common_pitch_gen", "other_pitch_gen"} |->
                           PitchGenerator(ps, 1, 1, 1).obj]
    /\ \E ds \in LayerVocabularies :
          rhythm_gens = [id \in {"common_dur_gen", "other_dur_gen"} |->
                            RhythmGenerator(ds, 1, 1, 0).obj]
    /\ \E phrase_len \in 1..MaxLength, w \in LayerWirings :
          phrase_gens = [id \in {"layer1", "layer2"} |->
                            IF id = "layer1"
                            THEN PhraseGenerator(PyInt(phrase_len), "common_pitch_gen",
                                                 "common_dur_gen")
                            ELSE PhraseGenerator(PyInt(phrase_len), w[1], w[2])]
    /\ duration_objs = NoObjects
    /\ pc = "idle"
    /\ frame = NoFrame
    /\ result = Result("none", "none", "none", "none", 0)
NextLayers ==
    \/ GenPhrase("layer1")
    \/ GenPhrase("layer2")
    \/ While
    \/ PitchStep
    \/ RhythmStep
SpecLayers == InitLayers /\ [][NextLayers]_vars

\* ------------------------------------------------------------------ properties

Last(seq) == seq[Len(seq)]
Contiguous(rs) ==
    \A k \in 1..(Len(rs) - 1) : rs[k + 1].start = rs[k].start + rs[k].duration
\* The generator the last call was made on.
ResultRhythmGen == rhythm_gens[result.self]
ResultPitchGen == pitch_gens[result.self]
\* The running or last gen_phrase call's PhraseGenerator and its generators.
FrameSelf == phrase_gens[frame.self]
Stopped == frame.status \in {"returned", "raised"}
\* Generators built within the documented ranges (repetitiveness >= 0,
\* repeat_decay > 0, a non-empty vocabulary of positive durations).
InRangePitchGen(self) == self.repeat_wt >= 0 /\ self.repeat_decay > 0
InRangeRhythmGen(self) ==
    /\ self.repeat_wt >= 0 /\ self.repeat_decay > 0
    /\ self.duration_set # <<>>
    /\ \A k \in DOMAIN self.duration_set : self.duration_set[k].duration > 0

\* C1: after any sequence of gen_next_rhythm(max_length) and add_duration calls,
\* every adjacent pair of the rhythm history satisfies
\* rhythm[i+1].start = rhythm[i].start + rhythm[i].duration.
C1_RhythmsContiguous ==
    \A id \in DOMAIN rhythm_gens : Contiguous(rhythm_gens[id]._rhythms_so_far)
\* Three rhythms, of different durations, from a non-zero start offset, the last
\* appended by gen_next_rhythm.
C1_Witness ==
    /\ result.op = "gen_next_rhythm" /\ result.raised = "none"
    /\ LET rs == ResultRhythmGen._rhythms_so_far
       IN /\ Len(rs) >= 3
          /\ rs[1].start = 1
          /\ rs[1].duration # rs[2].duration
          /\ rs[2].duration > 0

\* C2: gen_phrase on fresh generators (built within the documented ranges),
\* with target length L > 0 (above the start offset) and a vocabulary holding
\* Duration(1), stops only by returning, and then the final rhythm has
\* start < L <= start + duration.
C2_PhraseReturnsCoveringLength ==
    (/\ Stopped /\ frame.fresh
     /\ InRangePitchGen(pitch_gens[FrameSelf._pitch_gen])
     /\ InRangeRhythmGen(rhythm_gens[FrameSelf._rhythm_gen])
     /\ FrameSelf._length.cls = "int" /\ FrameSelf._length.val > 0
     /\ rhythm_gens[FrameSelf._rhythm_gen]._start_time < FrameSelf._length.val
     /\ \E k \in DOMAIN rhythm_gens[FrameSelf._rhythm_gen].duration_set :
           rhythm_gens[FrameSelf._rhythm_gen].duration_set[k].duration = 1)
    => /\ frame.status = "returned"
       /\ phrase_rhythms(frame.self) # <<>>
       /\ Last(phrase_rhythms(frame.self)).start < FrameSelf._length.val
       /\ FrameSelf._length.val <= Last(phrase_rhythms(frame.self)).start
                                 + Last(phrase_rhythms(frame.self)).duration

\* C3: every Rhythm appended by a call gen_next_rhythm(max_length) has
\* duration <= max_length.
C3_DurationWithinMaxLength ==
    (result.op = "gen_next_rhythm" /\ result.raised = "none")
    => Last(ResultRhythmGen._rhythms_so_far).duration <= result.max_length
\* A call that appended while the vocabulary held a duration above max_length.
C3_Witness ==
    /\ result.op = "gen_next_rhythm" /\ result.raised = "none"
    /\ \E k \in DOMAIN ResultRhythmGen.duration_set :
          ResultRhythmGen.duration_set[k].duration > result.max_length
    /\ Last(ResultRhythmGen._rhythms_so_far).duration = result.max_length

\* C4: a gen_next_rhythm(max_length) call (on a generator built within the
\* documented ranges) that reaches the fresh draw with no vocabulary duration
\* <= max_length raises NoFeasibleDuration.
C4_NoFeasibleDurationRaised ==
    (/\ result.op = "gen_next_rhythm" /\ result.branch = "fresh"
     /\ InRangeRhythmGen(ResultRhythmGen)
     /\ Len(this_dur_set(ResultRhythmGen.duration_set, result.max_length)) = 0)
    => result.raised = "NoFeasibleDuration"

\* C5: whenever gen_phrase with an int length on fresh generators (built within
\* the documented ranges) stops, by returning or by an error raised in a step, the pitch
\* history is as long as the rhythm history.
C5_PitchStepsEqualRhythmSteps ==
    (/\ Stopped /\ frame.fresh
     /\ FrameSelf._length.cls = "int"
     /\ InRangePitchGen(pitch_gens[FrameSelf._pitch_gen])
     /\ InRangeRhythmGen(rhythm_gens[FrameSelf._rhythm_gen]))
    => Len(phrase_pitches(frame.self)) = Len(phrase_rhythms(frame.self))

\* C6: the repeat probability the next gen_next_rhythm call uses on a non-empty
\* history, for r >= 0 and rd > 0, lies in [0, 1), equals 1 - e^(-r) when n = 0
\* and is positive when r > 0.
C6_RepeatProbability ==
    \A id \in DOMAIN rhythm_gens :
        LET self == rhythm_gens[id]
            n == count_repeated_rhythms(self._rhythms_so_far)
            p == chance(self.repeat_wt, n, self.repeat_decay)
        IN (/\ Len(self._rhythms_so_far) > 0
            /\ self.repeat_wt >= 0 /\ self.repeat_decay > 0)
           => /\ 0 <= p /\ p < 1000000
              /\ n = 0 => p = (1000 - Exp(-2 * self.repeat_wt)) * 1000
              /\ self.repeat_wt > 0 => p > 0

\* C7: a gen_next_rhythm call whose repeat draw succeeds appends one Rhythm at
\* previous start + previous duration with the previous duration, without error.
C7_RepeatAppendsSameDuration ==
    (result.op = "gen_next_rhythm" /\ result.branch = "repeat")
    => /\ result.raised = "none"
       /\ LET rs == ResultRhythmGen._rhythms_so_far
          IN /\ Len(rs) >= 2
             /\ rs[Len(rs)].duration = rs[Len(rs) - 1].duration
             /\ rs[Len(rs)].start = rs[Len(rs) - 1].start + rs[Len(rs) - 1].duration

\* C8: every gen_next_pitch call on a constructed PitchGenerator (built within
\* the documented ranges) appends a pitch, a copy of the last one or a member of
\* the pitch set's list, and never raises.
C8_GenNextPitchNeverRaises ==
    (result.op = "gen_next_pitch" /\ InRangePitchGen(ResultPitchGen))
    => /\ result.raised = "none"
       /\ LET notes == ResultPitchGen._notes_so_far
              list == pitches(ResultPitchGen.pitch_set)
          IN /\ Len(notes) >= 1
             /\ \/ Len(notes) >= 2 /\ Last(notes) = notes[Len(notes) - 1]
                \/ \E k \in DOMAIN list : list[k] = Last(notes).note

\* C9: no PitchGenerator or RhythmGenerator exists whose repeat_decay is <= 0,
\* whose repetitiveness is < 0 or whose duration vocabulary is empty: the
\* constructor rejects them.
C9_ConstructorsEnforceRanges ==
    /\ \A id \in DOMAIN pitch_gens :
          pitch_gens[id].repeat_decay > 0 /\ pitch_gens[id].repeat_wt >= 0
    /\ \A id \in DOMAIN rhythm_gens :
          /\ rhythm_gens[id].repeat_decay > 0 /\ rhythm_gens[id].repeat_wt >= 0
          /\ rhythm_gens[id].duration_set # <<>>

\* C10: when PhraseGenerators of one target length reuse a RhythmGenerator
\* and/or a PitchGenerator and their gen_phrase calls run one after another, no
\* call raises, the rhythm histories stay contiguous and, once every
\* PhraseGenerator has run, each has as many phrase_pitches as phrase_rhythms.
C10_SharedGeneratorsSafe ==
    /\ frame.status # "raised"
    /\ \A id \in DOMAIN rhythm_gens : Contiguous(rhythm_gens[id]._rhythms_so_far)
    /\ (pc = "idle" /\ frame.ended = DOMAIN phrase_gens)
       => \A ph \in DOMAIN phrase_gens :
             Len(phrase_pitches(ph)) = Len(phrase_rhythms(ph))

\* C11: gen_phrase with a Duration as length, on fresh generators built within
\* the documented ranges, runs as with the int of the same DU count: it does
\* not stop with an error at the loop test, it stops by returning.
C11_DurationLengthRuns ==
    (/\ Stopped /\ frame.fresh
     /\ FrameSelf._length.cls = "Duration"
     /\ InRangePitchGen(pitch_gens[FrameSelf._pitch_gen])
     /\ InRangeRhythmGen(rhythm_gens[FrameSelf._rhythm_gen])
     /\ len_pitch_set(pitch_gens[FrameSelf._pitch_gen].pitch_set) > 0)
    => frame.status = "returned"

\* The DU value of a Duration object the caller built is within the documented
\* range.
InRangeDuration(d) ==
    WideGt(d.duration, Wide(0)) /\ ~WideGt(d.duration, max_allowed_duration)

\* C12: every Duration object built from an int or a str has
\* 0 < duration <= max_allowed_duration, and Duration(n) raises for every int n
\* outside this range.
C12_DurationInRange ==
    /\ \A id \in DOMAIN duration_objs : InRangeDuration(duration_objs[id])
    /\ (/\ result.op = "Duration" /\ result.arg.cls = "int"
        /\ \/ ~WideGt(result.arg.val, Wide(0))
           \/ WideGt(result.arg.val, max_allowed_duration))
       => result.raised # "none"

\* C13: a == b on two Durations (of DU values within the documented range) is
\* True exactly when their DU values are equal, whatever they were built from
\* and whatever their flags.
C13_DurationEqualityByValue ==
    (/\ result.op = "Duration.__eq__"
     /\ InRangeDuration(duration_objs[result.self])
     /\ InRangeDuration(duration_objs[result.other]))
    => result.value = (duration_objs[result.self].duration
                          = duration_objs[result.other].duration)

\* C14: after a gen_next_pitch call that drew a pitch from the pitch set with
\* the integer of the previous history entry, the trailing-run count of the
\* history counts that entry as a repeat (the count is at least 1).
C14_PitchEqualityByValue ==
    (/\ result.op = "gen_next_pitch" /\ result.raised = "none"
     /\ result.branch = "fresh"
     /\ Len(ResultPitchGen._notes_so_far) >= 2
     /\ Last(ResultPitchGen._notes_so_far).note
           = ResultPitchGen._notes_so_far[Len(ResultPitchGen._notes_so_far) - 1].note)
    => count_repeated_pitches(ResultPitchGen._notes_so_far) >= 1

\* Spellings of the documented grammar: the string, the fraction of a whole
\* note it names, and its decorations.
Spelling(str, frac, dotted, triplet) ==
    [str |-> str, frac |-> frac, dotted |-> dotted, triplet |-> triplet]
Spellings ==
    { Spelling("1/4", <<1, 4>>, FALSE, FALSE),
      Spelling("quarter", <<1, 4>>, FALSE, FALSE),
      Spelling("quarter note", <<1, 4>>, FALSE, FALSE),
      Spelling("eighth triplet", <<1, 8>>, FALSE, TRUE),
      Spelling("dotted half", <<1, 2>>, TRUE, FALSE),
      Spelling("1/12", <<1, 12>>, FALSE, FALSE),
      Spelling("3/8", <<3, 8>>, FALSE, FALSE),
      Spelling("2", <<2, 1>>, FALSE, FALSE),
      Spelling("crotchet", <<1, 4>>, FALSE, FALSE),
      Spelling("Quarter", <<1, 4>>, FALSE, FALSE),
      Spelling("quarter-note", <<1, 4>>, FALSE, FALSE),
      Spelling("thirtysecond", <<1, 32>>, FALSE, FALSE),
      Spelling("thirty_second note", <<1, 32>>, FALSE, FALSE),
      Spelling("dot quarter", <<1, 4>>, TRUE, FALSE),
      Spelling("quarter tuple", <<1, 4>>, FALSE, TRUE),
      Spelling("dotted quarter triplet", <<1, 4>>, TRUE, TRUE),
      Spelling("whole", <<1, 1>>, FALSE, FALSE),
      Spelling("double whole", <<2, 1>>, FALSE, FALSE),
      Spelling("quadruple whole", <<4, 1>>, FALSE, FALSE),
      Spelling("octuple whole", <<8, 1>>, FALSE, FALSE),
      Spelling("maxima", <<8, 1>>, FALSE, FALSE) }
\* fraction * (3/2 if dotted) * (2/3 if triplet) * 4 * 96
SpelledDU(sp) ==
    (sp.frac[1] * (IF sp.dotted THEN 3 ELSE 1) * (IF sp.triplet THEN 2 ELSE 1) * 4 * 96)
        \div (sp.frac[2] * (IF sp.dotted THEN 2 ELSE 1) * (IF sp.triplet THEN 3 ELSE 1))

\* C15: Duration(str) for a spelling of the documented grammar builds a
\* Duration of DU = fraction * 4 * 96, times 3/2 if dotted and 2/3 if triplet,
\* whatever the spelling.
C15_ParsingBySpelling ==
    (result.op = "Duration" /\ result.arg.cls = "str")
    => \A sp \in Spellings :
          result.arg.val = sp.str
          => /\ result.raised = "none"
             /\ duration_objs[result.self].duration = Wide(SpelledDU(sp))

\* Strings of the model's inputs that are of neither documented form.
OfNeitherGrammar == {"", "abc", "1/4/2", "dotted"}

\* C16: Duration(str) raises the unparsable-duration error (RuntimeError) for a
\* string of neither grammar; for a string matching the fraction grammar it
\* either builds the Duration, truncated with a warning when the value is not
\* integral, or raises the error of a value above the maximum (ValueError), and
\* nothing else.
C16_DurationErrorKinds ==
    (result.op = "Duration" /\ result.arg.cls = "str")
    => /\ result.arg.val \in OfNeitherGrammar => result.raised = "RuntimeError"
       /\ fraction_match(lower(result.arg.val)).matched
          => /\ result.raised \in {"none", "ValueError"}
             /\ result.raised = "ValueError"
                => WideGt(_parse_duration_string(result.arg.val).dur,
                          max_allowed_duration)
       /\ result.warned => result.raised = "none"

\* A float that is a power of two.
IsPowerOfTwo(x) == x[1] > 0 /\ odd_part(x[1]) = 1

\* C17: calculate_syncopation returns 0 for length 1.0 on beat 0.0, and raises
\* the unsupported-duration error (NotImplementedError) for every length that is
\* not a power of two.
C17_SyncopationSimpleOnly ==
    result.op = "calculate_syncopation"
    => /\ (result.length = <<1, 1>> /\ result.beat = <<0, 1>> /\ ~result.linear)
          => (result.raised = "none" /\ result.score = 0)
       /\ ~IsPowerOfTwo(result.length) => result.raised = "NotImplementedError"

\* C18: the outcome of a calculate_syncopation call, score or error, is the
\* outcome of the call with every other meter and the same length, beat and
\* linear.
C18_MeterInert ==
    result.op = "calculate_syncopation"
    => \A meter \in Meters :
          calculate_syncopation(result.length, result.beat, meter, result.linear)
              = [raised |-> result.raised, score |-> result.score]
\* A call with a meter that returned a positive score.
C18_Witness ==
    /\ result.op = "calculate_syncopation"
    /\ result.meter = "4/4" /\ ~result.linear
    /\ result.raised = "none" /\ result.score > 0

\* C19: a pitch set built with range (a, b) has the pitch list of the one built
\* with range (b, a); its stored range is ascending and its stored tonic is in
\* 0..11.
C19_PitchSetNormalized ==
    result.op = "PitchSet"
    => /\ pitches(result.obj)
             = pitches(PitchSet(result.tonic, <<result.range[2], result.range[1]>>))
       /\ result.obj.range[1] <= result.obj.range[2]
       /\ result.obj.tonic \in 0..11
\* A pitch set of several pitches built with descending bounds and a tonic
\* outside 0..11.
C19_Witness ==
    /\ result.op = "PitchSet"
    /\ result.range[1] > result.range[2]
    /\ result.tonic \notin 0..11
    /\ Len(pitches(result.obj)) >= 2

\* C20: in every rhythm history of a generator (repetitiveness >= 0,
\* repeat_decay > 0, over any vocabulary the constructor accepted) the start
\* times are strictly increasing.
C20_StartTimesStrictlyIncreasing ==
    \A id \in DOMAIN rhythm_gens :
        (rhythm_gens[id].repeat_wt >= 0 /\ rhythm_gens[id].repeat_decay > 0)
        => \A k \in 1..(Len(rhythm_gens[id]._rhythms_so_far) - 1) :
              rhythm_gens[id]._rhythms_so_far[k + 1].start
                  > rhythm_gens[id]._rhythms_so_far[k].start

\* The number of entries right before the last one that equal it, with no
\* unequal entry in between: the trailing run of vals, its last entry aside.
TrailingRepeats(vals) ==
    CHOOSE n \in 0..(Len(vals) - 1) :
        /\ \A k \in 1..n : vals[Len(vals) - k] = vals[Len(vals)]
        /\ n = Len(vals) - 1 \/ vals[Len(vals) - n - 1] # vals[Len(vals)]
\* The pitch integers of a pitch history and the DU counts of a rhythm history.
NoteValues(notes) == [k \in DOMAIN notes |-> notes[k].note]
DurationValues(rs) == [k \in DOMAIN rs |-> rs[k].duration]
\* count_repeated_rhythms is the trailing run of the durations, by DU count.
RhythmRunCounted ==
    \A id \in DOMAIN rhythm_gens :
        Len(rhythm_gens[id]._rhythms_so_far) > 0
        => count_repeated_rhythms(rhythm_gens[id]._rhythms_so_far)
              = TrailingRepeats(DurationValues(rhythm_gens[id]._rhythms_so_far))

\* C21: on every non-empty history, count_repeated_pitches is the number of
\* consecutive entries right before the last one whose pitch equals the last
\* one's (the trailing run, scanned backward to the first mismatch), and
\* count_repeated_rhythms is the same over the durations, by DU count.
C21_TrailingRunCounted ==
    /\ \A id \in DOMAIN pitch_gens :
          Len(pitch_gens[id]._notes_so_far) > 0
          => count_repeated_pitches(pitch_gens[id]._notes_so_far)
                = TrailingRepeats(NoteValues(pitch_gens[id]._notes_so_far))
    /\ RhythmRunCounted

\* new is old with one entry appended.
Appended(old, new) == Len(new) = Len(old) + 1 /\ SubSeq(new, 1, Len(old)) = old
\* The configuration of a generator: its fields, the history aside.
PitchConfiguration(self) == [self EXCEPT !._notes_so_far = <<>>]
RhythmConfiguration(self) == [self EXCEPT !._rhythms_so_far = <<>>]

\* C22: a gen_next_pitch call of gen_phrase that ends without error lengthens
\* the history of its PitchGenerator by one entry, leaves the entries it had
\* where and as they were, and changes neither the generator's configuration,
\* nor any other PitchGenerator, nor any RhythmGenerator; a gen_next_rhythm
\* call that ends without error does the same to its RhythmGenerator and
\* changes no PitchGenerator.
C22_HistoriesAppendOnly ==
    [][/\ (pc = "gen_next_pitch" /\ pc' = "gen_next_rhythm")
          => /\ Appended(pitch_gens[FrameSelf._pitch_gen]._notes_so_far,
                         pitch_gens'[FrameSelf._pitch_gen]._notes_so_far)
             /\ PitchConfiguration(pitch_gens'[FrameSelf._pitch_gen])
                   = PitchConfiguration(pitch_gens[FrameSelf._pitch_gen])
             /\ \A id \in DOMAIN pitch_gens \ {FrameSelf._pitch_gen} :
                   pitch_gens'[id] = pitch_gens[id]
             /\ DOMAIN pitch_gens' = DOMAIN pitch_gens
             /\ rhythm_gens' = rhythm_gens
       /\ (pc = "gen_next_rhythm" /\ pc' = "while")
          => /\ Appended(rhythm_gens[FrameSelf._rhythm_gen]._rhythms_so_far,
                         rhythm_gens'[FrameSelf._rhythm_gen]._rhythms_so_far)
             /\ RhythmConfiguration(rhythm_gens'[FrameSelf._rhythm_gen])
                   = RhythmConfiguration(rhythm_gens[FrameSelf._rhythm_gen])
             /\ \A id \in DOMAIN rhythm_gens \ {FrameSelf._rhythm_gen} :
                   rhythm_gens'[id] = rhythm_gens[id]
             /\ DOMAIN rhythm_gens' = DOMAIN rhythm_gens
             /\ pitch_gens' = pitch_gens]_vars
\* A gen_next_rhythm call has just appended to a history of two entries, the
\* pitch history having three.
C22_Witness ==
    /\ pc = "while"
    /\ result.op = "gen_next_rhythm" /\ result.raised = "none"
    /\ Len(phrase_rhythms(frame.self)) >= 3
    /\ Len(phrase_pitches(frame.self)) >= 3

RECURSIVE SumDurations(_)
SumDurations(rs) ==
    IF rs = <<>> THEN 0 ELSE rs[1].duration + SumDurations(Tail(rs))

\* C24: gen_phrase with an int length L never overshoots.  In every state
\* from the call on, the next start time of its rhythm generator is <= L;
\* between the loop test and the end of the rhythm step max_len is
\* L - next start time and >= 1, and every max_length handed to gen_next_rhythm
\* is >= 1; when the call has returned the next start time is L, and for a
\* call on fresh generators with start offset < L the durations appended sum
\* to L - start offset.
C24_NeverOvershoots ==
    (frame.self # "none" /\ FrameSelf._length.cls = "int")
    => LET L == FrameSelf._length.val
           self == rhythm_gens[FrameSelf._rhythm_gen]
           next == get_next_start_time(self)
       IN /\ next.raised = "none" => next.start_du <= L
          /\ pc \in {"gen_next_pitch", "gen_next_rhythm"}
             => /\ next.raised = "none"
                /\ frame.max_len = L - next.start_du
                /\ frame.max_len >= 1
          /\ result.op = "gen_next_rhythm" => result.max_length >= 1
          /\ frame.status = "returned"
             => /\ next.raised = "none" /\ next.start_du = L
                /\ (frame.fresh /\ self._start_time < L)
                   => SumDurations(self._rhythms_so_far) = L - self._start_time
\* A call on fresh generators, from a start offset other than 0 and below the
\* length, has returned after several steps, the last of which left out a
\* vocabulary duration above its max_length.
C24_Witness ==
    /\ frame.self # "none" /\ frame.status = "returned" /\ frame.fresh
    /\ FrameSelf._length.cls = "int"
    /\ LET self == rhythm_gens[FrameSelf._rhythm_gen]
           rs == self._rhythms_so_far
       IN /\ self._start_time = 1
          /\ Len(rs) >= 2
          /\ Last(rs).start = FrameSelf._length.val - 1
          /\ \E k \in DOMAIN self.duration_set : self.duration_set[k].duration > 1

\* C25: a gen_next_rhythm call that ends with an error, as it does when no
\* duration of the vocabulary is <= max_length, leaves the generator, its
\* rhythm history and its next start time as they were before the call.
C25_FailedCallChangesNothing ==
    [][\A id \in DOMAIN rhythm_gens :
          (GenNextRhythm(id) /\ result'.raised # "none")
          => /\ rhythm_gens'[id]._rhythms_so_far = rhythm_gens[id]._rhythms_so_far
             /\ get_next_start_time(rhythm_gens'[id])
                   = get_next_start_time(rhythm_gens[id])
             /\ rhythm_gens' = rhythm_gens]_vars
\* A call on a non-empty history has just failed at the fresh draw: the
\* vocabulary is not empty and none of its durations is <= max_length.
C25_Witness ==
    /\ result.op = "gen_next_rhythm" /\ result.raised # "none"
    /\ result.branch = "fresh"
    /\ ResultRhythmGen.duration_set # <<>>
    /\ Len(this_dur_set(ResultRhythmGen.duration_set, result.max_length)) = 0
    /\ Len(ResultRhythmGen._rhythms_so_far) >= 1

\* C26: a gen_phrase call with an int length, entered when the next start time
\* of its rhythm generator is >= the length, takes no pitch step and no rhythm
\* step: entering the call changes no history, and the first loop test of the
\* call (max_len is not set yet) ends it by returning, both generators as they
\* were.
C26_FilledPhraseIdempotent ==
    [][/\ (pc = "idle" /\ pc' = "while")
          => /\ pitch_gens' = pitch_gens /\ rhythm_gens' = rhythm_gens
             /\ frame'.max_len = 0
       /\ (/\ pc = "while" /\ frame.max_len = 0
           /\ FrameSelf._length.cls = "int"
           /\ get_next_start_time(rhythm_gens[FrameSelf._rhythm_gen]).raised = "none"
           /\ get_next_start_time(rhythm_gens[FrameSelf._rhythm_gen]).start_du
                 >= FrameSelf._length.val)
          => /\ pc' = "idle" /\ frame'.status = "returned"
             /\ pitch_gens' = pitch_gens /\ rhythm_gens' = rhythm_gens]_vars
\* A call on a filled phrase (several rhythms, ending at the length) has
\* returned without an iteration of its loop.
C26_Witness ==
    /\ frame.self # "none" /\ frame.status = "returned"
    /\ ~frame.fresh /\ frame.max_len = 0
    /\ Len(phrase_rhythms(frame.self)) >= 2
    /\ Len(phrase_pitches(frame.self)) = Len(phrase_rhythms(frame.self))
    /\ get_next_start_time(rhythm_gens[FrameSelf._rhythm_gen]).start_du
          = FrameSelf._length.val

\* The integers of lo..hi that are a class of classes, moved by tonic, up to a
\* multiple of 12.
InSpace(tonic, classes, lo, hi) ==
    {p \in lo..hi : \E offset \in classes, octave \in -2..2 :
                        p = offset + tonic + 12 * octave}
\* seq lists the members of the set S in ascending order, each one once.
Enumerates(seq, S) ==
    /\ {seq[k] : k \in DOMAIN seq} = S
    /\ \A k \in 1..(Len(seq) - 1) : seq[k] < seq[k + 1]

\* C27: the pitches of a pitch set are the integers p of its range whose
\* p mod 12 is (offset + tonic) mod 12 for one of its offsets, in ascending
\* order and each one once; len() of the pitch set is the length of that list,
\* and pitch_set[i] is the Pitch of its i-th integer for every 0 <= i < len.
C27_PitchSpaceEnumeration ==
    result.op = "PitchSet"
    => LET ps == result.obj
           S == InSpace(ps.tonic, ps.classes, ps.range[1], ps.range[2])
       IN /\ Enumerates(pitches(ps), S)
          /\ len_pitch_set(ps) = Cardinality(S)
          /\ len_pitch_set(ps) = Len(pitches(ps))
          /\ \A i \in 0..(len_pitch_set(ps) - 1) :
                __getitem__(ps, i) = [raised |-> "none", note |-> pitches(ps)[i + 1]]
\* A pitch set over a range that starts below 0 and spans more than an octave,
\* with a tonic other than 0.
C27_Witness ==
    /\ result.op = "PitchSet"
    /\ result.obj.tonic # 0
    /\ result.obj.range[1] < 0
    /\ result.obj.range[2] - result.obj.range[1] >= 12
    /\ Len(pitches(result.obj)) >= 7

\* The denominator of the fraction x[1] / x[2], x[2] > 0, in lowest terms.
RECURSIVE GCD(_, _)
GCD(a, b) == IF b = 0 THEN a ELSE GCD(b, a % b)
Den(x) == x[2] \div GCD(IF x[1] < 0 THEN -x[1] ELSE x[1], x[2])
\* The fraction x + y, not reduced.
Plus(x, y) == <<x[1] * y[2] + y[1] * x[2], x[2] * y[2]>>

====
